---- MODULE Spec2Model ----
(***************************************************************************)
(* build_graph_from_csv of Script/visualize_azure_graph.py: the CSV table  *)
(* is read, the id index is built, and three passes over the rows create   *)
(* the nodes, the reference edges and the Internet exposure edges of a     *)
(* directed graph.  One action per loop iteration.                         *)
(*                                                                         *)
(* Every cell of the table is a string (read_csv(dtype=str).fillna("")).   *)
(* Strings are TLA+ strings; Len, SubSeq and \o act on their characters.   *)
(***************************************************************************)
EXTENDS Integers, Sequences, FiniteSets, TLC

VARIABLES columns, rows, pc, i, exc, id_to_name, candidate_ids, search_columns,
          node, edges, has_internet_node, is_exposed

vars == <<columns, rows, pc, i, exc, id_to_name, candidate_ids, search_columns,
          node, edges, has_internet_node, is_exposed>>

\* Largest number of data rows of an input table.
MaxRows == 2

\* Largest number of data rows of a table of rows that reference each other.
MaxRefRows == 3

(***************************************************************************)
(* Strings                                                                 *)
(***************************************************************************)

\* the lowercase letter of each ASCII uppercase letter
LowerOf ==
    [A |-> "a", B |-> "b", C |-> "c", D |-> "d", E |-> "e", F |-> "f",
     G |-> "g", H |-> "h", I |-> "i", J |-> "j", K |-> "k", L |-> "l",
     M |-> "m", N |-> "n", O |-> "o", P |-> "p", Q |-> "q", R |-> "r",
     S |-> "s", T |-> "t", U |-> "u", V |-> "v", W |-> "w", X |-> "x",
     Y |-> "y", Z |-> "z"]

\* str.lower() on one character.
LowerChar(c) == IF c \in DOMAIN LowerOf THEN LowerOf[c] ELSE c

RECURSIVE LowerFrom(_, _)
LowerFrom(s, k) ==
    IF k > Len(s) THEN "" ELSE LowerChar(SubSeq(s, k, k)) \o LowerFrom(s, k + 1)

\* s.lower()
Lower(s) == LowerFrom(s, 1)

\* Contains matching at the start of hay only.
Contains_Prefix(hay, needle) ==
    Len(needle) <= Len(hay) /\ SubSeq(hay, 1, Len(needle)) = needle

\* needle in hay: needle occurs in hay as a run of consecutive characters.
Contains(hay, needle) ==
    \E k \in 0..(Len(hay) - Len(needle)) :
        SubSeq(hay, k + 1, k + Len(needle)) = needle

RECURSIVE Join(_, _)
\* sep.join(parts)
Join(sep, parts) ==
    IF Len(parts) = 0 THEN ""
    ELSE IF Len(parts) = 1 THEN parts[1]
    ELSE parts[1] \o sep \o Join(sep, Tail(parts))

(***************************************************************************)
(* JSON.  A parsed value is a tagged record: obj (v: a function from keys  *)
(* to values), list (v: a sequence), str, num, bool, null.  json_loads is   *)
(* json.loads on the property texts of the input tables below; any other   *)
(* text of these tables is not JSON and raises JSONDecodeError.            *)
(***************************************************************************)

EmptyDict == [k \in {} |-> k]

nsg_open_any ==
    "{\"securityRules\":[{\"properties\":{\"direction\":\"Inbound\",\"access\":\"Allow\",\"sourceAddressPrefix\":\"*\"}}]}"
nsg_private ==
    "{\"securityRules\":[{\"properties\":{\"direction\":\"Inbound\",\"access\":\"Allow\",\"sourceAddressPrefix\":\"10.0.0.0/8\"}}]}"
nsg_flat_rule ==
    "{\"securityRules\":[{\"direction\":\"Inbound\",\"access\":\"Allow\",\"sourceAddressPrefix\":\"*\"}]}"
nsg_open_upper ==
    "{\"securityRules\":[{\"properties\":{\"direction\":\"INBOUND\",\"access\":\"ALLOW\",\"sourceAddressPrefix\":\"Internet\"}}]}"
nsg_open_cidr ==
    "{\"securityRules\":[{\"properties\":{\"direction\":\"inbound\",\"access\":\"allow\",\"sourceAddressPrefix\":\"0.0.0.0/0\"}}]}"
nsg_outbound ==
    "{\"securityRules\":[{\"properties\":{\"direction\":\"Outbound\",\"access\":\"Allow\",\"sourceAddressPrefix\":\"*\"}}]}"
nsg_deny ==
    "{\"securityRules\":[{\"properties\":{\"direction\":\"Inbound\",\"access\":\"Deny\",\"sourceAddressPrefix\":\"*\"}}]}"
nsg_second_open ==
    "{\"securityRules\":[{\"properties\":{\"direction\":\"Inbound\",\"access\":\"Deny\",\"sourceAddressPrefix\":\"*\"}},{\"properties\":{\"direction\":\"Inbound\",\"access\":\"Allow\",\"sourceAddressPrefix\":\"*\"}}]}"
nsg_bad_then_open ==
    "{\"securityRules\":[5,{\"properties\":{\"direction\":\"Inbound\",\"access\":\"Allow\",\"sourceAddressPrefix\":\"*\"}}]}"
nsg_open_then_bad ==
    "{\"securityRules\":[{\"properties\":{\"direction\":\"Inbound\",\"access\":\"Allow\",\"sourceAddressPrefix\":\"*\"}},5]}"
nsg_short_circuit ==
    "{\"securityRules\":[{\"properties\":{\"direction\":\"Outbound\",\"access\":5}},{\"properties\":{\"direction\":\"Inbound\",\"access\":\"Allow\",\"sourceAddressPrefix\":\"*\"}}]}"
nsg_rules_number ==
    "{\"securityRules\":5}"
nsg_rules_null ==
    "{\"securityRules\":null}"
nsg_rules_object ==
    "{\"securityRules\":{\"a\":1}}"
nsg_rules_string ==
    "{\"securityRules\":\"x\"}"
nsg_rules_empty ==
    "{\"securityRules\":[]}"
nsg_rule_props_number ==
    "{\"securityRules\":[{\"properties\":5},{\"properties\":{\"direction\":\"Inbound\",\"access\":\"Allow\",\"sourceAddressPrefix\":\"*\"}}]}"
nsg_direction_number ==
    "{\"securityRules\":[{\"properties\":{\"direction\":5,\"access\":\"Allow\",\"sourceAddressPrefix\":\"*\"}},{\"properties\":{\"direction\":\"Inbound\",\"access\":\"Allow\",\"sourceAddressPrefix\":\"*\"}}]}"
nsg_rule_props_null ==
    "{\"securityRules\":[{\"properties\":null},{\"properties\":{\"direction\":\"Inbound\",\"access\":\"Allow\",\"sourceAddressPrefix\":\"*\"}}]}"
nsg_access_number ==
    "{\"securityRules\":[{\"properties\":{\"direction\":\"Inbound\",\"access\":5}},{\"properties\":{\"direction\":\"Inbound\",\"access\":\"Allow\",\"sourceAddressPrefix\":\"*\"}}]}"
nsg_prefix_null ==
    "{\"securityRules\":[{\"properties\":{\"direction\":\"Inbound\",\"access\":\"Allow\",\"sourceAddressPrefix\":null}},{\"properties\":{\"direction\":\"Inbound\",\"access\":\"Allow\",\"sourceAddressPrefix\":\"*\"}}]}"
nsg_prefix_number_denied ==
    "{\"securityRules\":[{\"properties\":{\"direction\":\"Inbound\",\"access\":\"Deny\",\"sourceAddressPrefix\":5}},{\"properties\":{\"direction\":\"Inbound\",\"access\":\"Allow\",\"sourceAddressPrefix\":\"*\"}}]}"
nsg_no_prefix ==
    "{\"securityRules\":[{\"properties\":{\"direction\":\"Inbound\",\"access\":\"Allow\"}}]}"
sto_allow ==
    "{\"networkAcls\":{\"defaultAction\":\"Allow\"}}"
sto_allow_upper ==
    "{\"networkAcls\":{\"defaultAction\":\"ALLOW\"}}"
sto_deny ==
    "{\"networkAcls\":{\"defaultAction\":\"Deny\"}}"
sto_no_action ==
    "{\"networkAcls\":{}}"
sto_acls_number ==
    "{\"networkAcls\":5}"
sto_acls_null ==
    "{\"networkAcls\":null}"
sto_action_number ==
    "{\"networkAcls\":{\"defaultAction\":5}}"
sto_allow_ref2 ==
    "{\"networkAcls\":{\"defaultAction\":\"Allow\"},\"ref\":\"2\"}"
empty_object ==
    "{}"
top_list ==
    "[1]"
top_string ==
    "\"x\""
top_number_12 ==
    "12"
top_number_5 ==
    "5"
not_json ==
    "not json"

json_loads(s) ==
    CASE s = nsg_open_any ->
           [t |-> "obj", v |-> [securityRules |-> [t |-> "list", v |-> <<[t |-> "obj", v |-> [properties |-> [t |-> "obj", v |-> [direction |-> [t |-> "str", v |-> "Inbound"], access |-> [t |-> "str", v |-> "Allow"], sourceAddressPrefix |-> [t |-> "str", v |-> "*"]]]]]>>]]]
      [] s = nsg_private ->
           [t |-> "obj", v |-> [securityRules |-> [t |-> "list", v |-> <<[t |-> "obj", v |-> [properties |-> [t |-> "obj", v |-> [direction |-> [t |-> "str", v |-> "Inbound"], access |-> [t |-> "str", v |-> "Allow"], sourceAddressPrefix |-> [t |-> "str", v |-> "10.0.0.0/8"]]]]]>>]]]
      [] s = nsg_flat_rule ->
           [t |-> "obj", v |-> [securityRules |-> [t |-> "list", v |-> <<[t |-> "obj", v |-> [direction |-> [t |-> "str", v |-> "Inbound"], access |-> [t |-> "str", v |-> "Allow"], sourceAddressPrefix |-> [t |-> "str", v |-> "*"]]]>>]]]
      [] s = nsg_open_upper ->
           [t |-> "obj", v |-> [securityRules |-> [t |-> "list", v |-> <<[t |-> "obj", v |-> [properties |-> [t |-> "obj", v |-> [direction |-> [t |-> "str", v |-> "INBOUND"], access |-> [t |-> "str", v |-> "ALLOW"], sourceAddressPrefix |-> [t |-> "str", v |-> "Internet"]]]]]>>]]]
      [] s = nsg_open_cidr ->
           [t |-> "obj", v |-> [securityRules |-> [t |-> "list", v |-> <<[t |-> "obj", v |-> [properties |-> [t |-> "obj", v |-> [direction |-> [t |-> "str", v |-> "inbound"], access |-> [t |-> "str", v |-> "allow"], sourceAddressPrefix |-> [t |-> "str", v |-> "0.0.0.0/0"]]]]]>>]]]
      [] s = nsg_outbound ->
           [t |-> "obj", v |-> [securityRules |-> [t |-> "list", v |-> <<[t |-> "obj", v |-> [properties |-> [t |-> "obj", v |-> [direction |-> [t |-> "str", v |-> "Outbound"], access |-> [t |-> "str", v |-> "Allow"], sourceAddressPrefix |-> [t |-> "str", v |-> "*"]]]]]>>]]]
      [] s = nsg_deny ->
           [t |-> "obj", v |-> [securityRules |-> [t |-> "list", v |-> <<[t |-> "obj", v |-> [properties |-> [t |-> "obj", v |-> [direction |-> [t |-> "str", v |-> "Inbound"], access |-> [t |-> "str", v |-> "Deny"], sourceAddressPrefix |-> [t |-> "str", v |-> "*"]]]]]>>]]]
      [] s = nsg_second_open ->
           [t |-> "obj", v |-> [securityRules |-> [t |-> "list", v |-> <<[t |-> "obj", v |-> [properties |-> [t |-> "obj", v |-> [direction |-> [t |-> "str", v |-> "Inbound"], access |-> [t |-> "str", v |-> "Deny"], sourceAddressPrefix |-> [t |-> "str", v |-> "*"]]]]], [t |-> "obj", v |-> [properties |-> [t |-> "obj", v |-> [direction |-> [t |-> "str", v |-> "Inbound"], access |-> [t |-> "str", v |-> "Allow"], sourceAddressPrefix |-> [t |-> "str", v |-> "*"]]]]]>>]]]
      [] s = nsg_bad_then_open ->
           [t |-> "obj", v |-> [securityRules |-> [t |-> "list", v |-> <<[t |-> "num", v |-> 5], [t |-> "obj", v |-> [properties |-> [t |-> "obj", v |-> [direction |-> [t |-> "str", v |-> "Inbound"], access |-> [t |-> "str", v |-> "Allow"], sourceAddressPrefix |-> [t |-> "str", v |-> "*"]]]]]>>]]]
      [] s = nsg_open_then_bad ->
           [t |-> "obj", v |-> [securityRules |-> [t |-> "list", v |-> <<[t |-> "obj", v |-> [properties |-> [t |-> "obj", v |-> [direction |-> [t |-> "str", v |-> "Inbound"], access |-> [t |-> "str", v |-> "Allow"], sourceAddressPrefix |-> [t |-> "str", v |-> "*"]]]]], [t |-> "num", v |-> 5]>>]]]
      [] s = nsg_short_circuit ->
           [t |-> "obj", v |-> [securityRules |-> [t |-> "list", v |-> <<[t |-> "obj", v |-> [properties |-> [t |-> "obj", v |-> [direction |-> [t |-> "str", v |-> "Outbound"], access |-> [t |-> "num", v |-> 5]]]]], [t |-> "obj", v |-> [properties |-> [t |-> "obj", v |-> [direction |-> [t |-> "str", v |-> "Inbound"], access |-> [t |-> "str", v |-> "Allow"], sourceAddressPrefix |-> [t |-> "str", v |-> "*"]]]]]>>]]]
      [] s = nsg_rules_number ->
           [t |-> "obj", v |-> [securityRules |-> [t |-> "num", v |-> 5]]]
      [] s = nsg_rules_null ->
           [t |-> "obj", v |-> [securityRules |-> [t |-> "null"]]]
      [] s = nsg_rules_object ->
           [t |-> "obj", v |-> [securityRules |-> [t |-> "obj", v |-> [a |-> [t |-> "num", v |-> 1]]]]]
      [] s = nsg_rules_string ->
           [t |-> "obj", v |-> [securityRules |-> [t |-> "str", v |-> "x"]]]
      [] s = nsg_rules_empty ->
           [t |-> "obj", v |-> [securityRules |-> [t |-> "list", v |-> <<>>]]]
      [] s = nsg_rule_props_number ->
           [t |-> "obj", v |-> [securityRules |-> [t |-> "list", v |-> <<[t |-> "obj", v |-> [properties |-> [t |-> "num", v |-> 5]]], [t |-> "obj", v |-> [properties |-> [t |-> "obj", v |-> [direction |-> [t |-> "str", v |-> "Inbound"], access |-> [t |-> "str", v |-> "Allow"], sourceAddressPrefix |-> [t |-> "str", v |-> "*"]]]]]>>]]]
      [] s = nsg_direction_number ->
           [t |-> "obj", v |-> [securityRules |-> [t |-> "list", v |-> <<[t |-> "obj", v |-> [properties |-> [t |-> "obj", v |-> [direction |-> [t |-> "num", v |-> 5], access |-> [t |-> "str", v |-> "Allow"], sourceAddressPrefix |-> [t |-> "str", v |-> "*"]]]]], [t |-> "obj", v |-> [properties |-> [t |-> "obj", v |-> [direction |-> [t |-> "str", v |-> "Inbound"], access |-> [t |-> "str", v |-> "Allow"], sourceAddressPrefix |-> [t |-> "str", v |-> "*"]]]]]>>]]]
      [] s = nsg_rule_props_null ->
           [t |-> "obj", v |-> [securityRules |-> [t |-> "list", v |-> <<[t |-> "obj", v |-> [properties |-> [t |-> "null"]]], [t |-> "obj", v |-> [properties |-> [t |-> "obj", v |-> [direction |-> [t |-> "str", v |-> "Inbound"], access |-> [t |-> "str", v |-> "Allow"], sourceAddressPrefix |-> [t |-> "str", v |-> "*"]]]]]>>]]]
      [] s = nsg_access_number ->
           [t |-> "obj", v |-> [securityRules |-> [t |-> "list", v |-> <<[t |-> "obj", v |-> [properties |-> [t |-> "obj", v |-> [direction |-> [t |-> "str", v |-> "Inbound"], access |-> [t |-> "num", v |-> 5]]]]], [t |-> "obj", v |-> [properties |-> [t |-> "obj", v |-> [direction |-> [t |-> "str", v |-> "Inbound"], access |-> [t |-> "str", v |-> "Allow"], sourceAddressPrefix |-> [t |-> "str", v |-> "*"]]]]]>>]]]
      [] s = nsg_prefix_null ->
           [t |-> "obj", v |-> [securityRules |-> [t |-> "list", v |-> <<[t |-> "obj", v |-> [properties |-> [t |-> "obj", v |-> [direction |-> [t |-> "str", v |-> "Inbound"], access |-> [t |-> "str", v |-> "Allow"], sourceAddressPrefix |-> [t |-> "null"]]]]], [t |-> "obj", v |-> [properties |-> [t |-> "obj", v |-> [direction |-> [t |-> "str", v |-> "Inbound"], access |-> [t |-> "str", v |-> "Allow"], sourceAddressPrefix |-> [t |-> "str", v |-> "*"]]]]]>>]]]
      [] s = nsg_prefix_number_denied ->
           [t |-> "obj", v |-> [securityRules |-> [t |-> "list", v |-> <<[t |-> "obj", v |-> [properties |-> [t |-> "obj", v |-> [direction |-> [t |-> "str", v |-> "Inbound"], access |-> [t |-> "str", v |-> "Deny"], sourceAddressPrefix |-> [t |-> "num", v |-> 5]]]]], [t |-> "obj", v |-> [properties |-> [t |-> "obj", v |-> [direction |-> [t |-> "str", v |-> "Inbound"], access |-> [t |-> "str", v |-> "Allow"], sourceAddressPrefix |-> [t |-> "str", v |-> "*"]]]]]>>]]]
      [] s = nsg_no_prefix ->
           [t |-> "obj", v |-> [securityRules |-> [t |-> "list", v |-> <<[t |-> "obj", v |-> [properties |-> [t |-> "obj", v |-> [direction |-> [t |-> "str", v |-> "Inbound"], access |-> [t |-> "str", v |-> "Allow"]]]]]>>]]]
      [] s = sto_allow ->
           [t |-> "obj", v |-> [networkAcls |-> [t |-> "obj", v |-> [defaultAction |-> [t |-> "str", v |-> "Allow"]]]]]
      [] s = sto_allow_upper ->
           [t |-> "obj", v |-> [networkAcls |-> [t |-> "obj", v |-> [defaultAction |-> [t |-> "str", v |-> "ALLOW"]]]]]
      [] s = sto_deny ->
           [t |-> "obj", v |-> [networkAcls |-> [t |-> "obj", v |-> [defaultAction |-> [t |-> "str", v |-> "Deny"]]]]]
      [] s = sto_no_action ->
           [t |-> "obj", v |-> [networkAcls |-> [t |-> "obj", v |-> EmptyDict]]]
      [] s = sto_acls_number ->
           [t |-> "obj", v |-> [networkAcls |-> [t |-> "num", v |-> 5]]]
      [] s = sto_acls_null ->
           [t |-> "obj", v |-> [networkAcls |-> [t |-> "null"]]]
      [] s = sto_action_number ->
           [t |-> "obj", v |-> [networkAcls |-> [t |-> "obj", v |-> [defaultAction |-> [t |-> "num", v |-> 5]]]]]
      [] s = sto_allow_ref2 ->
           [t |-> "obj", v |-> [networkAcls |-> [t |-> "obj", v |-> [defaultAction |-> [t |-> "str", v |-> "Allow"]]], ref |-> [t |-> "str", v |-> "2"]]]
      [] s = empty_object ->
           [t |-> "obj", v |-> EmptyDict]
      [] s = top_list ->
           [t |-> "list", v |-> <<[t |-> "num", v |-> 1]>>]
      [] s = top_string ->
           [t |-> "str", v |-> "x"]
      [] s = top_number_12 ->
           [t |-> "num", v |-> 12]
      [] s = top_number_5 ->
           [t |-> "num", v |-> 5]
      [] OTHER -> [t |-> "JSONDecodeError"]

\* dict.get(key, default) on a parsed object.
DictGet(d, key, default) ==
    IF key \in DOMAIN d.v THEN d.v[key] ELSE default

(***************************************************************************)
(* The input table                                                         *)
(***************************************************************************)

\* row.get(c, default) on a row of the table.
RowGet(row, c, default) ==
    IF c \in DOMAIN row THEN row[c] ELSE default

Range(s) == {s[k] : k \in 1..Len(s)}

\* HasRequiredColumns asking for the 'type' column too.
HasRequiredColumns_Strict(cols) ==
    "id" \in Range(cols) /\ "name" \in Range(cols) /\ "type" \in Range(cols)

HasRequiredColumns(cols) ==
    "id" \in Range(cols) /\ "name" \in Range(cols)

RECURSIVE IdToName_FirstWins(_, _)
\* IdToName keeping the entry of the first row that declares an id.
IdToName_FirstWins(rs, k) ==
    IF k = 0 THEN EmptyDict
    ELSE IF rs[k]["id"] # ""
         THEN IdToName_FirstWins(rs, k - 1) @@ (rs[k]["id"] :> rs[k]["name"])
         ELSE IdToName_FirstWins(rs, k - 1)

RECURSIVE IdToName(_, _)
\* {row['id']: row['name'] for row in rows[1..k] if row['id']}: a later row
\* with the same id replaces the entry of an earlier one.
IdToName(rs, k) ==
    IF k = 0 THEN EmptyDict
    ELSE IF rs[k]["id"] # ""
         THEN (rs[k]["id"] :> rs[k]["name"]) @@ IdToName(rs, k - 1)
         ELSE IdToName(rs, k - 1)

(***************************************************************************)
(* The graph G: node maps each node to its attribute dict, edge is the set *)
(* of directed edges (nx.DiGraph).                                         *)
(***************************************************************************)

\* AddNode replacing the attribute dict of an existing node.
AddNode_Replace(g, n, attrs) ==
    [g EXCEPT !.node = (n :> attrs) @@ g.node]

\* G.add_node(n, **attrs): creates the node, or updates the attribute dict
\* of an existing node with attrs.
AddNode(g, n, attrs) ==
    LET old == IF n \in DOMAIN g.node THEN g.node[n] ELSE EmptyDict
    IN  [g EXCEPT !.node = (n :> (attrs @@ old)) @@ g.node]

\* G.add_edge(u, v): creates the nodes that are missing, then the edge.
AddEdge(g, u, v) ==
    LET g1 == AddNode(AddNode(g, u, EmptyDict), v, EmptyDict)
    IN  [g1 EXCEPT !.edge = @ \cup {<<u, v>>}]

\* attrs of lines 58-63: the non-empty fields of the row.
RowAttrs(cols, row) ==
    [c \in {c \in Range(cols) : row[c] # ""} |-> row[c]]

RecognizedColumns ==
    {"properties", "tags", "identity", "managedBy", "resourceGroup", "type"}

\* search_columns of lines 71-74.
SearchColumns(cols) ==
    LET found == SelectSeq(cols, LAMBDA c : c \in RecognizedColumns)
    IN  IF found = <<>> THEN cols ELSE found

RECURSIVE Cells(_, _)
Cells(row, cs) ==
    IF cs = <<>> THEN <<>>
    ELSE <<RowGet(row, Head(cs), "")>> \o Cells(row, Tail(cs))

\* hay of line 81.
Haystack(row, cs) == Join(" ", Cells(row, cs))

\* IsCandidate without the skip of the row's own id.
IsCandidate_NoSkip(row, cid) == TRUE

\* whether the inner loop (lines 83-91) tests candidate cid against hay.
IsCandidate(row, cid) == cid # row["id"]

\* the targets of the edges the inner loop adds for one source row.
RefTargets(row, cs, ids, index) ==
    {index[cid] : cid \in {c \in ids : /\ IsCandidate(row, c)
                                       /\ Contains(Haystack(row, cs), c)
                                       /\ index[c] # ""}}

RECURSIVE AddEdges(_, _, _)
AddEdges(g, u, targets) ==
    IF targets = {} THEN g
    ELSE LET v == CHOOSE t \in targets : TRUE
         IN  AddEdges(AddEdge(AddNode(g, v, EmptyDict), u, v), u, targets \ {v})

(***************************************************************************)
(* Exposure (lines 93-130)                                                 *)
(***************************************************************************)

internet_node_name == "Internet"

internet_sources == {"*", "internet", "0.0.0.0/0"}

InternetAttrs == [type |-> "Internet", group |-> "Internet", size |-> 40]

NsgType == "microsoft.network/networksecuritygroups"

StorageType == "microsoft.storage/storageaccounts"

\* RuleProps reading the fields on the entry itself.
RuleProps_Flat(rule) == rule

\* the rule entry on which lines 111-113 read direction, access and
\* sourceAddressPrefix.
RuleProps(rule) == DictGet(rule, "properties", [t |-> "obj", v |-> EmptyDict])

\* One iteration of the loop of lines 109-115: "match" (is_exposed, break),
\* "next", or the AttributeError of a .get or .lower() on a value without it.
\* The three tests are joined by `and`: a later one is evaluated only when
\* the earlier ones are true.
RuleOutcome(rule) ==
    IF rule.t # "obj" THEN "AttributeError"
    ELSE LET rule_props == RuleProps(rule) IN
    IF rule_props.t # "obj" THEN "AttributeError"
    ELSE LET direction == DictGet(rule_props, "direction", [t |-> "str", v |-> ""])
             access == DictGet(rule_props, "access", [t |-> "str", v |-> ""])
             prefix == DictGet(rule_props, "sourceAddressPrefix", [t |-> "str", v |-> ""])
         IN  IF direction.t # "str" THEN "AttributeError"
             ELSE IF Lower(direction.v) # "inbound" THEN "next"
             ELSE IF access.t # "str" THEN "AttributeError"
             ELSE IF Lower(access.v) # "allow" THEN "next"
             ELSE IF prefix.t # "str" THEN "AttributeError"
             ELSE IF Lower(prefix.v) \in internet_sources THEN "match"
             ELSE "next"

RECURSIVE ScanRules(_, _)
ScanRules(rs, k) ==
    IF k > Len(rs) THEN "clear"
    ELSE LET o == RuleOutcome(rs[k])
         IN  IF o = "match" THEN "exposed"
             ELSE IF o = "next" THEN ScanRules(rs, k + 1)
             ELSE o

\* for rule in rules: a list gives its entries; a str gives its characters
\* and a dict its keys, which are strs without .get; a number, a bool or
\* None is not iterable (TypeError).
RulesOutcome(rules) ==
    CASE rules.t = "list" -> ScanRules(rules.v, 1)
      [] rules.t = "str" -> IF rules.v = "" THEN "clear" ELSE "AttributeError"
      [] rules.t = "obj" -> IF DOMAIN rules.v = {} THEN "clear" ELSE "AttributeError"
      [] OTHER -> "TypeError"

NsgOutcome(properties) ==
    IF properties.t # "obj" THEN "AttributeError"
    ELSE RulesOutcome(DictGet(properties, "securityRules", [t |-> "list", v |-> <<>>]))

\* StorageOutcome comparing defaultAction without .lower().
StorageOutcome_CaseSensitive(properties) ==
    IF properties.t # "obj" THEN "AttributeError"
    ELSE LET network_acls == DictGet(properties, "networkAcls", [t |-> "obj", v |-> EmptyDict]) IN
    IF network_acls.t # "obj" THEN "AttributeError"
    ELSE LET action == DictGet(network_acls, "defaultAction", [t |-> "str", v |-> ""]) IN
    IF action.t # "str" THEN "AttributeError"
    ELSE IF action.v = "allow" THEN "exposed" ELSE "clear"

StorageOutcome(properties) ==
    IF properties.t # "obj" THEN "AttributeError"
    ELSE LET network_acls == DictGet(properties, "networkAcls", [t |-> "obj", v |-> EmptyDict]) IN
    IF network_acls.t # "obj" THEN "AttributeError"
    ELSE LET action == DictGet(network_acls, "defaultAction", [t |-> "str", v |-> ""]) IN
    IF action.t # "str" THEN "AttributeError"
    ELSE IF Lower(action.v) = "allow" THEN "exposed" ELSE "clear"

\* The try block of lines 104-124 for one row: "exposed", "clear", the
\* caught JSONDecodeError or AttributeError (continue), or the TypeError
\* that the except clause does not catch.
Exposure(row) ==
    LET node_type == Lower(RowGet(row, "type", ""))
        properties == json_loads(RowGet(row, "properties", "{}"))
    IN  IF properties.t = "JSONDecodeError" THEN "JSONDecodeError"
        ELSE IF node_type = NsgType THEN NsgOutcome(properties)
        ELSE IF node_type = StorageType THEN StorageOutcome(properties)
        ELSE "clear"

(***************************************************************************)
(* Input tables                                                            *)
(***************************************************************************)

FullHeader == <<"id", "name", "type", "properties">>

MinHeader == <<"id", "name">>

NoIdHeader == <<"name", "type", "properties">>

NoNameHeader == <<"id", "type", "properties">>

Row(id, name, type, properties) ==
    [id |-> id, name |-> name, type |-> type, properties |-> properties]

Restrict(row, cols) == [c \in Range(cols) |-> row[c]]

Tables(cols, family, max) ==
    UNION {[1..n -> {Restrict(r, cols) : r \in family}] : n \in 0..max}

NsgMixedCase == "Microsoft.Network/networkSecurityGroups"

StorageMixedCase == "Microsoft.Storage/storageAccounts"

StorageUpperCase == "MICROSOFT.STORAGE/STORAGEACCOUNTS"

VmType == "Microsoft.Compute/virtualMachines"

RefRows ==
    ({Row(id, name, "vm", p) : id \in {"", "1", "2"},
                               name \in {"", "A", "B"},
                               p \in {"", top_number_12}}
         \ {Row("", "", "vm", p) : p \in {"", top_number_12}})
    \cup {Row("12", "B", "vm", ""),
          Row("2", "Internet", StorageMixedCase, sto_allow_ref2)}

MinRows ==
    {Row(id, name, "", "") : id \in {"", "1", "2", "12"}, name \in {"A", "n2"}}
    \cup {Row("1", "", "", "")}

BadRows ==
    {Row(id, name, "vm", "") : id \in {"1"}, name \in {"A"}}

NsgRows ==
    {Row("1", "A", NsgMixedCase, p) :
         p \in {nsg_open_any, nsg_private, nsg_flat_rule, nsg_open_upper,
                nsg_open_cidr, nsg_outbound, nsg_deny, nsg_second_open,
                nsg_bad_then_open, nsg_open_then_bad, nsg_short_circuit,
                nsg_rules_number, nsg_rules_null, nsg_rules_object,
                nsg_rules_string, nsg_rules_empty, nsg_rule_props_number,
                nsg_rule_props_null, nsg_direction_number, nsg_access_number,
                nsg_prefix_null, nsg_prefix_number_denied, nsg_no_prefix,
                empty_object, top_list, top_string, top_number_5, not_json, ""}}
    \cup {Row("2", "B", t, p) :
              t \in {NsgMixedCase, NsgType, VmType, StorageMixedCase},
              p \in {nsg_open_any, nsg_rules_null}}
    \cup {Row("3", "", NsgMixedCase, p) : p \in {nsg_open_any, nsg_private}}

StoRows ==
    {Row("1", name, StorageMixedCase, p) :
         name \in {"", "A"},
         p \in {sto_allow, sto_allow_upper, sto_deny, sto_no_action,
                sto_acls_number, sto_acls_null, sto_action_number,
                empty_object, top_list, not_json, ""}}
    \cup {Row("2", "B", t, sto_allow) :
              t \in {StorageUpperCase, StorageType, VmType, NsgMixedCase, ""}}
    \cup {Row("3", "Internet", StorageMixedCase, p) : p \in {sto_allow, sto_deny}}
    \cup {Row("3", "", VmType, sto_allow)}

InitState ==
    /\ pc = "read"
    /\ i = 0
    /\ exc = ""
    /\ id_to_name = EmptyDict
    /\ candidate_ids = {}
    /\ search_columns = <<>>
    /\ node = EmptyDict
    /\ edges = {}
    /\ has_internet_node = FALSE
    /\ is_exposed = FALSE

InitRef ==
    /\ \/ columns = FullHeader /\ rows \in Tables(FullHeader, RefRows, MaxRefRows)
       \/ columns = MinHeader /\ rows \in Tables(MinHeader, MinRows, MaxRefRows)
       \/ columns = NoIdHeader /\ rows \in Tables(NoIdHeader, BadRows, MaxRefRows)
       \/ columns = NoNameHeader /\ rows \in Tables(NoNameHeader, BadRows, MaxRefRows)
    /\ InitState

InitNsg ==
    /\ \/ columns = FullHeader /\ rows \in Tables(FullHeader, NsgRows, MaxRows)
       \/ columns = MinHeader /\ rows \in Tables(MinHeader, MinRows, MaxRows)
       \/ columns = NoIdHeader /\ rows \in Tables(NoIdHeader, BadRows, MaxRows)
       \/ columns = NoNameHeader /\ rows \in Tables(NoNameHeader, BadRows, MaxRows)
    /\ InitState

InitSto ==
    /\ \/ columns = FullHeader /\ rows \in Tables(FullHeader, StoRows, MaxRows)
       \/ columns = MinHeader /\ rows \in Tables(MinHeader, MinRows, MaxRows)
       \/ columns = NoIdHeader /\ rows \in Tables(NoIdHeader, BadRows, MaxRows)
       \/ columns = NoNameHeader /\ rows \in Tables(NoNameHeader, BadRows, MaxRows)
    /\ InitState

(***************************************************************************)
(* build_graph_from_csv                                                    *)
(***************************************************************************)

G == [node |-> node, edge |-> edges]

\* MarkExposed leaving the flag as it was.
MarkExposed_NoFlag(g, has, node_name) ==
    LET g0 == IF has THEN g ELSE AddNode(g, internet_node_name, InternetAttrs)
    IN  [graph |-> AddEdge(g0, internet_node_name, node_name),
         has_internet_node |-> has]

\* lines 126-130: the graph and the flag after an exposed row.
MarkExposed(g, has, node_name) ==
    LET g0 == IF has THEN g ELSE AddNode(g, internet_node_name, InternetAttrs)
    IN  [graph |-> AddEdge(g0, internet_node_name, node_name),
         has_internet_node |-> TRUE]

\* lines 37-48
ReadCsv ==
    /\ pc = "read"
    /\ IF HasRequiredColumns(columns)
       THEN /\ id_to_name' = IdToName(rows, Len(rows))
            /\ pc' = "nodes"
            /\ i' = 1
            /\ exc' = exc
       ELSE /\ pc' = "raised"
            /\ exc' = "SystemExit"
            /\ UNCHANGED <<id_to_name, i>>
    /\ UNCHANGED <<columns, rows, candidate_ids, search_columns, node, edges,
                   has_internet_node, is_exposed>>

\* lines 51-64, one row
AddNodeRow ==
    /\ pc = "nodes"
    /\ i <= Len(rows)
    /\ LET row == rows[i]
           name == row["name"]
           g == IF name = "" THEN G ELSE AddNode(G, name, RowAttrs(columns, row))
       IN  node' = g.node /\ edges' = g.edge
    /\ i' = i + 1
    /\ UNCHANGED <<columns, rows, pc, exc, id_to_name, candidate_ids,
                   search_columns, has_internet_node, is_exposed>>

\* lines 68-74.  candidate_ids is the set of the index's keys: the edges the
\* inner loop adds do not depend on the order in which it visits them.
StartRefs ==
    /\ pc = "nodes"
    /\ i > Len(rows)
    /\ candidate_ids' = DOMAIN id_to_name
    /\ search_columns' = SearchColumns(columns)
    /\ pc' = "refs"
    /\ i' = 1
    /\ UNCHANGED <<columns, rows, exc, id_to_name, node, edges,
                   has_internet_node, is_exposed>>

\* lines 76-91, one source row
RefRow ==
    /\ pc = "refs"
    /\ i <= Len(rows)
    /\ LET row == rows[i]
           src_name == row["name"]
           g == IF src_name = "" THEN G
                ELSE AddEdges(G, src_name,
                              RefTargets(row, search_columns, candidate_ids, id_to_name))
       IN  node' = g.node /\ edges' = g.edge
    /\ i' = i + 1
    /\ UNCHANGED <<columns, rows, pc, exc, id_to_name, candidate_ids,
                   search_columns, has_internet_node, is_exposed>>

\* lines 94-96
StartExposure ==
    /\ pc = "refs"
    /\ i > Len(rows)
    /\ has_internet_node' = FALSE
    /\ pc' = "exposure"
    /\ i' = 1
    /\ UNCHANGED <<columns, rows, exc, id_to_name, candidate_ids, search_columns,
                   node, edges, is_exposed>>

\* lines 98-130, one row.  The TypeError of a securityRules that is not
\* iterable is not caught at line 123 and ends build_graph_from_csv.
ExposureRow ==
    /\ pc = "exposure"
    /\ i <= Len(rows)
    /\ LET row == rows[i]
           node_name == row["name"]
           outcome == Exposure(row)
           m == MarkExposed(G, has_internet_node, node_name)
       IN  IF outcome = "TypeError"
           THEN /\ pc' = "raised"
                /\ exc' = "TypeError"
                /\ is_exposed' = FALSE
                /\ UNCHANGED <<i, node, edges, has_internet_node>>
           ELSE /\ is_exposed' = (outcome = "exposed")
                /\ IF outcome = "exposed"
                   THEN /\ node' = m.graph.node
                        /\ edges' = m.graph.edge
                        /\ has_internet_node' = m.has_internet_node
                   ELSE UNCHANGED <<node, edges, has_internet_node>>
                /\ i' = i + 1
                /\ UNCHANGED <<pc, exc>>
    /\ UNCHANGED <<columns, rows, id_to_name, candidate_ids, search_columns>>

\* line 132
Return ==
    /\ pc = "exposure"
    /\ i > Len(rows)
    /\ pc' = "returned"
    /\ UNCHANGED <<columns, rows, i, exc, id_to_name, candidate_ids,
                   search_columns, node, edges, has_internet_node, is_exposed>>

Next ==
    \/ ReadCsv
    \/ AddNodeRow
    \/ StartRefs
    \/ RefRow
    \/ StartExposure
    \/ ExposureRow
    \/ Return

Init == InitRef \/ InitNsg \/ InitSto

\* Every table below.
Spec == Init /\ [][Next]_vars

\* Tables whose rows reference each other's ids.
SpecRef == InitRef /\ [][Next]_vars

\* Tables of network security groups.
SpecNsg == InitNsg /\ [][Next]_vars

\* Tables of storage accounts.
SpecSto == InitSto /\ [][Next]_vars

(***************************************************************************)
(* Properties.  What the input table says, read off the rows directly.     *)
(***************************************************************************)

NumRows == Len(rows)

NameOf(k) == rows[k]["name"]

IdOf(k) == rows[k]["id"]

MaxOf(S) == CHOOSE x \in S : \A y \in S : y <= x

\* the non-empty ids the rows declare
KnownIds == {IdOf(k) : k \in 1..NumRows} \ {""}

\* the last row declaring the id
LastDeclaring(cid) == MaxOf({k \in 1..NumRows : IdOf(k) = cid})

\* the text of the row's search columns, joined
HayOf(k) == Haystack(rows[k], SearchColumns(columns))

ParsedOf(k) == json_loads(RowGet(rows[k], "properties", "{}"))

TypeOf(k) == Lower(RowGet(rows[k], "type", ""))

\* d[key] of a parsed object, or null
Field(d, key) ==
    IF d.t = "obj" /\ key \in DOMAIN d.v THEN d.v[key] ELSE [t |-> "null"]

\* d[key] lowercased when it is a string, else ""
FieldLower(d, key) ==
    IF Field(d, key).t = "str" THEN Lower(Field(d, key).v) ELSE ""

\* direction, access and sourceAddressPrefix of p say: inbound, allowed, from
\* the Internet
OpenFields(p) ==
    /\ FieldLower(p, "direction") = "inbound"
    /\ FieldLower(p, "access") = "allow"
    /\ FieldLower(p, "sourceAddressPrefix") \in {"*", "internet", "0.0.0.0/0"}

\* the entries of properties.securityRules when that is a list
RulesOf(k) ==
    IF Field(ParsedOf(k), "securityRules").t = "list"
    THEN Field(ParsedOf(k), "securityRules").v
    ELSE <<>>

\* an entry on which the test of the rule raises AttributeError: the entry
\* or its 'properties' is not an object, or one of the fields the test gets
\* to read is not a string
Malformed(entry) ==
    LET p == Field(entry, "properties")
        bad(key) == Field(p, key).t \notin {"str", "null"} \/
                    (key \in DOMAIN p.v /\ Field(p, key).t = "null")
    IN  \/ entry.t # "obj"
        \/ ("properties" \in DOMAIN entry.v /\ p.t # "obj")
        \/ /\ p.t = "obj"
           /\ \/ bad("direction")
              \/ /\ FieldLower(p, "direction") = "inbound"
                 /\ \/ bad("access")
                    \/ /\ FieldLower(p, "access") = "allow"
                       /\ bad("sourceAddressPrefix")

\* a network security group with an open rule under the entry's 'properties'
NsgOpen(k) ==
    /\ TypeOf(k) = "microsoft.network/networksecuritygroups"
    /\ \E r \in 1..Len(RulesOf(k)) :
           /\ OpenFields(Field(RulesOf(k)[r], "properties"))
           /\ \A q \in 1..(r - 1) : ~Malformed(RulesOf(k)[q])

\* a storage account whose networkAcls.defaultAction is allow
StorageOpen(k) ==
    /\ TypeOf(k) = "microsoft.storage/storageaccounts"
    /\ FieldLower(Field(ParsedOf(k), "networkAcls"), "defaultAction") = "allow"

RowOpen(k) == NsgOpen(k) \/ StorageOpen(k)

\* the row the pass at pc has just finished
Done(pass) == pc = pass /\ i > 1

(***************************************************************************)
(* C3                                                                      *)
(***************************************************************************)

\* the ids other than the row's own that occur in its haystack and that the
\* index resolves to the row's own name
OtherIdsOfOwnName(k) ==
    {cid \in KnownIds : /\ cid # IdOf(k)
                        /\ Contains(HayOf(k), cid)
                        /\ NameOf(LastDeclaring(cid)) = NameOf(k)}

\* C3: in the reference pass the row's own id is skipped before the
\* substring test: a row whose haystack holds no other id resolving to its
\* own name gets no edge from its name to itself, whether or not its own id
\* occurs in its haystack.
C3_SelfReferenceExclusion ==
    [][(pc = "refs" /\ i <= NumRows /\ OtherIdsOfOwnName(i) = {}
          /\ <<NameOf(i), NameOf(i)>> \notin edges)
       => <<NameOf(i), NameOf(i)>> \notin edges']_vars

\* a row whose own id occurs in its own haystack and resolves to its own
\* name has been scanned, and there is no self-loop
C3_Witness ==
    /\ Done("refs")
    /\ NameOf(i - 1) # ""
    /\ IdOf(i - 1) # ""
    /\ Contains(HayOf(i - 1), IdOf(i - 1))
    /\ NameOf(LastDeclaring(IdOf(i - 1))) = NameOf(i - 1)
    /\ <<NameOf(i - 1), NameOf(i - 1)>> \notin edges

(***************************************************************************)
(* C10                                                                     *)
(***************************************************************************)

\* a row named s whose haystack holds a known id, not its own, that the
\* last row declaring it names t
RefWitness(s, t) ==
    /\ s # ""
    /\ t # ""
    /\ \E k \in 1..NumRows :
           /\ NameOf(k) = s
           /\ \E cid \in KnownIds : /\ cid # IdOf(k)
                                    /\ Contains(HayOf(k), cid)
                                    /\ NameOf(LastDeclaring(cid)) = t

\* s is the Internet node and a row named t satisfies an exposure rule
ExposureWitness(s, t) ==
    /\ s = "Internet"
    /\ \E k \in 1..NumRows :
           /\ NameOf(k) = t
           /\ \/ /\ TypeOf(k) = "microsoft.network/networksecuritygroups"
                 /\ \E r \in 1..Len(RulesOf(k)) :
                        OpenFields(Field(RulesOf(k)[r], "properties"))
              \/ StorageOpen(k)

\* C10: every edge of the graph, at every point of the build, has a witness
\* in the input: a reference found in a source row's haystack, or an
\* exposure rule satisfied by a row named as the target of an Internet edge.
C10_EdgeSoundness ==
    HasRequiredColumns(columns) =>
        \A e \in edges : RefWitness(e[1], e[2]) \/ ExposureWitness(e[1], e[2])

\* the returned graph holds a reference edge and an exposure edge
C10_Witness ==
    /\ pc = "returned"
    /\ \E e \in edges : e[1] # "Internet" /\ RefWitness(e[1], e[2])
    /\ \E e \in edges : ExposureWitness(e[1], e[2]) /\ ~RefWitness(e[1], e[2])

(***************************************************************************)
(* C2                                                                      *)
(***************************************************************************)

\* C2 as stated: for rows a and b with different ids, a named, a's
\* properties holding b's id gives the edge a -> b, and the edge b -> a is
\* there only if b's haystack holds a's id.
C2_AsStated ==
    (pc = "returned" /\ "properties" \in Range(columns)) =>
        \A a, b \in 1..NumRows :
            (/\ IdOf(a) # IdOf(b)
             /\ NameOf(a) # ""
             /\ Contains(rows[a]["properties"], IdOf(b)))
            => /\ <<NameOf(a), NameOf(b)>> \in edges
               /\ <<NameOf(b), NameOf(a)>> \in edges => Contains(HayOf(b), IdOf(a))

\* no other row carries the name of row k
NameUnique(k) == \A j \in 1..NumRows : NameOf(j) = NameOf(k) => j = k

\* C2, amended: b must have a non-empty id and a non-empty name and be the
\* last row declaring its id for the edge a -> b to follow; and b -> a is
\* there only if b's haystack holds a's id when, in addition, a and b are
\* the only rows carrying their names and b is not named "Internet".
C2_IdResolution ==
    (pc = "returned" /\ "properties" \in Range(columns)) =>
        \A a, b \in 1..NumRows :
            (/\ IdOf(a) # IdOf(b)
             /\ NameOf(a) # ""
             /\ IdOf(b) # ""
             /\ NameOf(b) # ""
             /\ LastDeclaring(IdOf(b)) = b
             /\ Contains(rows[a]["properties"], IdOf(b)))
            => /\ <<NameOf(a), NameOf(b)>> \in edges
               /\ (/\ NameUnique(a)
                   /\ NameUnique(b)
                   /\ NameOf(b) # "Internet"
                   /\ <<NameOf(b), NameOf(a)>> \in edges)
                  => Contains(HayOf(b), IdOf(a))

\* a references b and b does not reference a: the returned graph holds
\* a -> b and not b -> a, with a third row declaring b's id before b does
C2_Witness ==
    /\ pc = "returned"
    /\ "properties" \in Range(columns)
    /\ \E a, b, c \in 1..NumRows :
           /\ IdOf(a) # IdOf(b)
           /\ IdOf(b) # ""
           /\ IdOf(c) = IdOf(b)
           /\ c < b
           /\ NameOf(c) # NameOf(b)
           /\ LastDeclaring(IdOf(b)) = b
           /\ NameOf(a) # ""
           /\ NameOf(b) # ""
           /\ Contains(rows[a]["properties"], IdOf(b))
           /\ ~Contains(HayOf(b), IdOf(a))
           /\ <<NameOf(a), NameOf(b)>> \in edges
           /\ <<NameOf(b), NameOf(a)>> \notin edges

(***************************************************************************)
(* C1                                                                      *)
(***************************************************************************)

RowsNamed(n) == {k \in 1..NumRows : NameOf(k) = n}

\* the rows named n that have a value in column c
RowsWith(n, c) == {k \in RowsNamed(n) : rows[k][c] # ""}

\* per column, the value of the last row named n that has one
MergedFields(n) ==
    [c \in {c \in Range(columns) : RowsWith(n, c) # {}} |->
        rows[MaxOf(RowsWith(n, c))][c]]

\* the non-empty fields of row k alone
FieldsOf(k) ==
    [c \in {c \in Range(columns) : rows[k][c] # ""} |-> rows[k][c]]

\* C1 as stated: every non-empty name is a node whose attributes are
\* exactly the non-empty fields of the last row carrying that name.
C1_AsStated ==
    pc = "returned" =>
        \A k \in 1..NumRows :
            NameOf(k) # "" =>
                /\ NameOf(k) \in DOMAIN node
                /\ node[NameOf(k)] = FieldsOf(MaxOf(RowsNamed(NameOf(k))))

\* C1, amended: every non-empty name is a node whose attributes are, per
\* column, the value of the last row carrying that name that has a value in
\* that column; the node named "Internet" carries type, group and size of
\* the synthetic node over these when some row is exposed.
C1_NodeCompleteness ==
    pc = "returned" =>
        \A k \in 1..NumRows :
            NameOf(k) # "" =>
                /\ NameOf(k) \in DOMAIN node
                /\ node[NameOf(k)] =
                       IF NameOf(k) = "Internet" /\ \E j \in 1..NumRows : RowOpen(j)
                       THEN [type |-> "Internet", group |-> "Internet", size |-> 40]
                                @@ MergedFields(NameOf(k))
                       ELSE MergedFields(NameOf(k))

\* two rows carry one name, the earlier has a value in a column where the
\* later has none, and the returned node keeps the earlier value
C1_Witness ==
    /\ pc = "returned"
    /\ \E j, k \in 1..NumRows :
           /\ j < k
           /\ NameOf(j) = NameOf(k)
           /\ NameOf(k) # ""
           /\ k = MaxOf(RowsNamed(NameOf(k)))
           /\ \E c \in Range(columns) :
                  /\ rows[j][c] # ""
                  /\ rows[k][c] = ""
                  /\ c \in DOMAIN node[NameOf(k)]
                  /\ node[NameOf(k)][c] = rows[j][c]

(***************************************************************************)
(* C4, C5                                                                  *)
(***************************************************************************)

\* a step of the exposure pass that finishes row i
ExposureStep == pc = "exposure" /\ i <= NumRows /\ pc' = "exposure" /\ i' = i + 1

InternetEdge(k) == <<"Internet", NameOf(k)>>

\* an entry of securityRules that itself holds the three open fields
FlatOpen(k) == \E r \in 1..Len(RulesOf(k)) : OpenFields(RulesOf(k)[r])

\* C4 as stated: a network security group row yields the edge
\* Internet -> name if and only if some entry of securityRules has, on the
\* entry itself, direction inbound, access allow and an Internet source.
C4_AsStated ==
    [][(ExposureStep /\ TypeOf(i) = "microsoft.network/networksecuritygroups")
       => edges' = edges \cup (IF FlatOpen(i) THEN {InternetEdge(i)} ELSE {})]_vars

\* C4, amended: the three fields are read under the entry's 'properties'
\* object, and the entry counts only if no earlier entry of the list is
\* malformed (the scan of the row stops at the first malformed entry).
C4_NsgExposure ==
    [][(ExposureStep /\ TypeOf(i) = "microsoft.network/networksecuritygroups")
       => edges' = edges \cup (IF NsgOpen(i) THEN {InternetEdge(i)} ELSE {})]_vars

\* a network security group whose rule is open under 'properties' has been
\* scanned and the edge is there
C4_Witness ==
    /\ Done("exposure")
    /\ RowGet(rows[i - 1], "type", "") = "Microsoft.Network/networkSecurityGroups"
    /\ NsgOpen(i - 1)
    /\ ~FlatOpen(i - 1)
    /\ is_exposed
    /\ InternetEdge(i - 1) \in edges

\* C5: a row that is not a network security group yields the edge
\* Internet -> name exactly when it is a storage account whose
\* networkAcls.defaultAction is allow in any letter case.
C5_StorageExposure ==
    [][(ExposureStep /\ TypeOf(i) # "microsoft.network/networksecuritygroups")
       => edges' = edges \cup (IF StorageOpen(i) THEN {InternetEdge(i)} ELSE {})]_vars

\* a storage account with defaultAction "Allow" has been scanned and the
\* edge is there
C5_Witness ==
    /\ Done("exposure")
    /\ RowGet(rows[i - 1], "type", "") = "Microsoft.Storage/storageAccounts"
    /\ Field(Field(ParsedOf(i - 1), "networkAcls"), "defaultAction") =
           [t |-> "str", v |-> "Allow"]
    /\ is_exposed
    /\ InternetEdge(i - 1) \in edges

(***************************************************************************)
(* C6, C7, C8                                                              *)
(***************************************************************************)

HasIdAndName == {"id", "name"} \subseteq Range(columns)

\* C6 as stated: with 'id' and 'name' columns present, no row's properties
\* aborts the build.
C6_AsStated == HasIdAndName => pc # "raised"

\* C7: without the 'id' or the 'name' column the build raises before any
\* node or edge exists and never returns; with both it never raises this
\* error.
C7_MissingColumns ==
    pc # "read" =>
        IF HasIdAndName
        THEN exc # "SystemExit"
        ELSE /\ pc = "raised"
             /\ exc = "SystemExit"
             /\ DOMAIN node = {}
             /\ edges = {}

\* a table with rows and no 'name' column has been refused
C7_Witness ==
    /\ pc = "raised"
    /\ exc = "SystemExit"
    /\ "name" \notin Range(columns)
    /\ NumRows > 0

\* C8 as stated: every node of the returned graph is the non-empty name of
\* a row or the Internet node.
C8_AsStated ==
    pc = "returned" =>
        \A n \in DOMAIN node :
            n = "Internet" \/ (n # "" /\ \E k \in 1..NumRows : NameOf(k) = n)

(***************************************************************************)
(* C9                                                                      *)
(***************************************************************************)

\* the attributes of the synthetic node are on the node named "Internet"
SyntheticNode(nd) ==
    /\ "Internet" \in DOMAIN nd
    /\ \A a \in {"type", "group", "size"} : a \in DOMAIN nd["Internet"]
    /\ nd["Internet"]["type"] = "Internet"
    /\ nd["Internet"]["group"] = "Internet"
    /\ nd["Internet"]["size"] = 40

\* C9: the flag is never reset; it is set, and the synthetic node created,
\* in the step that finishes the first exposed row; through the exposure
\* pass and at the return the flag says whether a row scanned so far is
\* exposed, and the synthetic node's attributes are there exactly when it
\* is set.
C9_SingleInternetNode ==
    [][/\ has_internet_node => has_internet_node'
       /\ (~has_internet_node /\ has_internet_node')
              => /\ ExposureStep
                 /\ RowOpen(i)
                 /\ \A k \in 1..(i - 1) : ~RowOpen(k)
                 /\ SyntheticNode(node')
       /\ pc' \in {"exposure", "returned"}
              => /\ has_internet_node' <=> \E k \in 1..(i' - 1) : RowOpen(k)
                 /\ has_internet_node' <=> SyntheticNode(node')]_vars

\* two exposed rows have been scanned
C9_Witness ==
    /\ pc = "returned"
    /\ has_internet_node
    /\ \E j, k \in 1..NumRows : j < k /\ RowOpen(j) /\ RowOpen(k)
    /\ SyntheticNode(node)

====
